---------------------------- MODULE Spec2Model ----------------------------
(***************************************************************************)
(* A model of astrodendro's dendrogram construction,                       *)
(* Dendrogram._compute of astrodendro/dendrogram.py: the descending-flux   *)
(* scan that creates leaves, extends structures, merges insignificant      *)
(* leaves and creates branches, followed by the removal of insignificant   *)
(* leaves, the creation of the trunk and the stamping of item_type_map.    *)
(*                                                                         *)
(* Leaf, Branch and Trunk live in astrodendro/components.py; the model     *)
(* gives them the behaviour the specification document describes           *)
(* (add_point, merge, add_footprint; npix, fmin, fmax).                    *)
(***************************************************************************)
EXTENDS Integers, Sequences, FiniteSets, TLC

\* ------------------------------------------------------------------ bounds

\* The cells of an enumerated row have values in 1..MaxFlux.
MaxFlux == 3
\* The cells of an enumerated grid have values in 0..MaxGridFlux.
MaxGridFlux == 1
\* minimum_npix is 0 or MaxNpix, minimum_delta is drawn from 0..MaxDelta.
MaxNpix == 2
MaxDelta == 2

\* ----------------------------------------------------------------- inputs

\* The value the code writes as Python's None in the ancestor dictionary.
None == -1

\* The shapes of the enumerated input arrays (len(data.shape) is 2 or 3): a
\* row of five cells, a grid of two rows of three cells, and a cube of two
\* planes of one row of two cells.
RowShapes == {<<1, 5>>}
GridShapes == {<<2, 3>>, <<2, 1, 2>>}

\* self.data.shape: a 2D array is recast to 3D with one plane.
Reshape(s) == IF Len(s) = 2 THEN <<1, s[1], s[2]>> ELSE s

\* The voxel coordinates (z, y, x) of a cube of shape s.
Coords(s) == (0..(s[1]-1)) \X (0..(s[2]-1)) \X (0..(s[3]-1))

\* The cells of index_map: one more than the cube along every axis.
PadCoords(s) == (0..s[1]) \X (0..s[2]) \X (0..s[3])

\* The rows of the specification's scenarios S1/S2, S4 and S6 as inputs of
\* the build.
RowData(row) == [c \in Coords(<<1, 1, Len(row)>>) |-> row[c[3] + 1]]
RowInput(row, mf, np, md) ==
    [shape |-> <<1, Len(row)>>, data |-> RowData(row), minimum_flux |-> mf,
     minimum_npix |-> np, minimum_delta |-> md]
TwoPeaks == <<1, 2, 3, 2, 1, 2, 3, 2, 1>>
Scenarios ==
    { RowInput(TwoPeaks, 0, 1, 0), RowInput(TwoPeaks, 0, 1, 3),
      RowInput(<<3, 3, 3>>, 0, 0, 0), RowInput(<<3, 2, 0, 0, 2, 3>>, 0, 0, 0) }

\* The enumerated inputs: every cube of an enumerated shape s with values in
\* mn..mx, with minimum_flux = 0 (so that cells of value 0 are left out).
Cubes(s, mn, mx) ==
    { [shape |-> s, data |-> d, minimum_flux |-> 0,
       minimum_npix |-> np, minimum_delta |-> md] :
      d \in [Coords(Reshape(s)) -> mn..mx],
      np \in {0, MaxNpix}, md \in 0..MaxDelta }
Enumerated ==
    UNION ({Cubes(s, 1, MaxFlux) : s \in RowShapes}
           \cup {Cubes(s, 0, MaxGridFlux) : s \in GridShapes})

\* The value that stands for a minimum_flux that is not a number (every
\* comparison with it is false); no enumerated flux has this value.
NaN == -99

\* Inputs with a threshold the documentation calls invalid: a row with two
\* peaks and a nested branch, built with a negative minimum_npix, a negative
\* minimum_delta, or a minimum_flux that is not a number.
BadThresholds ==
    { RowInput(<<3, 1, 3, 1, 2>>, 0, -1, 0), RowInput(<<3, 1, 3, 1, 2>>, 0, 0, -1),
      RowInput(<<3, 1, 3, 1, 2>>, 0, -1, -1), RowInput(<<3, 1, 3, 1, 2>>, NaN, 0, 0),
      RowInput(<<2, 1, 2>>, NaN, 2, 1) }

\* Inputs whose number of dimensions is neither 2 nor 3: a vector of three
\* cells and an array of four axes.
BadRanks ==
    { [shape |-> <<3>>, data |-> [c \in {<<0>>, <<1>>, <<2>>} |-> 1 + c[1]],
       minimum_flux |-> 0, minimum_npix |-> 0, minimum_delta |-> 0],
      [shape |-> <<1, 1, 1, 2>>,
       data |-> [c \in {<<0, 0, 0, 0>>, <<0, 0, 0, 1>>} |-> 1 + c[4]],
       minimum_flux |-> 0, minimum_npix |-> 0, minimum_delta |-> 0] }

\* A row of two components, built with both size thresholds above zero: a
\* branch over two leaves of two voxels, and a leaf of two voxels by itself.
TwoComponents == { RowInput(<<3, 3, 1, 3, 3, 0, 3, 1>>, 0, 2, 2) }

Inputs == Enumerated \cup Scenarios \cup BadThresholds \cup BadRanks \cup TwoComponents

\* ------------------------------------------------------------------ state

VARIABLES
    data_shape,     \* data.shape of the array given to _compute
    attrs,          \* the attributes set on the Dendrogram (self.<name>)
    n_dim,          \* self.n_dim
    shape,          \* self.data.shape (always three axes)
    data,           \* self.data
    minimum_flux,   \* the thresholds
    minimum_npix,
    minimum_delta,
    flux_values,    \* the values above minimum_flux, in row-major order
    coords,         \* their coordinates (z, y, x)
    index_map,      \* self.index_map, padded by one cell along every axis
    ancestor,       \* the ancestor dictionary
    items,          \* the keys of the items dictionary
    structs,        \* the Leaf and Branch objects, by idx
    visited,        \* the indices i the scan loop has been through
    created,        \* the idx of every structure created, in creation order
    remove,         \* the list of leaves removed after the scan
    trunk,          \* self.trunk
    item_type_map,  \* self.item_type_map
    pc              \* where _compute is: start, scan, trunk, done, raised

vars == <<data_shape, attrs, n_dim, shape, data, minimum_flux, minimum_npix, minimum_delta,
          flux_values, coords, index_map, ancestor, items, structs, visited, created, remove,
          trunk, item_type_map, pc>>


\* ---------------------------------------------------- the filtered voxels

\* The position of a voxel in the row-major ravel of a cube of shape s.
Ravel(s, c) == (c[1] * s[2] + c[2]) * s[3] + c[3]

\* A filter that kept the values at or above the minimum as well.
KeepAtOrAbove(s, d, mf) == {c \in Coords(s) : d[c] >= mf}

\* The comparison "value > minimum_flux" of floating-point numbers: false
\* when minimum_flux is not a number.
Above(v, mf) == mf # NaN /\ v > mf

\* keep = self.data.ravel() > minimum_flux
Keep(s, d, mf) == {c \in Coords(s) : Above(d[c], mf)}

\* coords: the kept voxels in row-major order (entry i of the code is entry
\* i + 1 of the sequence).
KeptCoords(s, d, mf) ==
    LET keep == Keep(s, d, mf)
    IN [k \in 1..Cardinality(keep) |->
          CHOOSE c \in keep :
             Cardinality({e \in keep : Ravel(s, e) < Ravel(s, c)}) = k - 1]

\* The indices the scan has still to go through.
Unvisited == (0..(Len(flux_values) - 1)) \ visited

\* A scan in no order of flux.
UnsortedNextIndices == Unvisited

\* A scan that took the smallest remaining flux first.
AscendingNextIndices ==
    {i \in Unvisited : \A j \in Unvisited : flux_values[i + 1] <= flux_values[j + 1]}

\* The indices np.argsort(flux_values)[::-1] may yield next: one of largest
\* remaining flux.  argsort's default sort is not stable, so the order among
\* equal fluxes is any order.
NextIndices ==
    {i \in Unvisited : \A j \in Unvisited : flux_values[j + 1] <= flux_values[i + 1]}

\* A next_idx that numbered the structures from 0.
next_idx_from_zero(i) == i

\* next_idx(): i + 1
next_idx(i) == i + 1

\* -------------------------------------------------------------- index_map

\* An index_map without the padding: an index of -1 lands on the last cell
\* of the cube.
WrapUnpadded(k, n) == IF k < 0 THEN k + n ELSE IF k >= n THEN k - n ELSE k

\* Python's indexing of an axis of length n + 1: -1 is the last (padding)
\* cell.
Wrap(k, n) == IF k < 0 THEN k + n + 1 ELSE k

\* self.index_map[c]
IndexAt(c) == index_map[<<Wrap(c[1], shape[1]), Wrap(c[2], shape[2]), Wrap(c[3], shape[3])>>]

\* Only the neighbours along x.
indices_adjacent_x(c) == {<<c[1], c[2], c[3] - 1>>, <<c[1], c[2], c[3] + 1>>}

\* indices_adjacent: the six neighbours of (z, y, x).
indices_adjacent(c) ==
    {<<c[1], c[2], c[3] - 1>>, <<c[1], c[2], c[3] + 1>>,
     <<c[1], c[2] - 1, c[3]>>, <<c[1], c[2] + 1, c[3]>>,
     <<c[1] - 1, c[2], c[3]>>, <<c[1] + 1, c[2], c[3]>>}

\* A lookup that leaves the adjacent element as it is.
NoAncestor(a) == a

\* "Replace adjacent elements by its ancestor"
ReplaceByAncestor(a) == IF ancestor[a] # None THEN ancestor[a] ELSE a

\* adjacent, after the duplicates are removed.
adjacent(c) ==
    {ReplaceByAncestor(IndexAt(n)) : n \in {m \in indices_adjacent(c) : IndexAt(m) # 0}}

\* ------------------------------------------------------- Leaf and Branch

\* Leaf(x, y, z, flux, idx=idx)
Leaf(c, f, idx) ==
    [type |-> "Leaf", idx |-> idx, vox |-> {c}, npix |-> 1, fmin |-> f,
     fmax |-> f, seed |-> c, children |-> {}]

\* Branch(items, x, y, z, flux, idx=idx)
Branch(ch, c, f, idx) ==
    [type |-> "Branch", idx |-> idx, vox |-> {c}, npix |-> 1, fmin |-> f,
     fmax |-> f, seed |-> c, children |-> ch]

Min2(a, b) == IF a <= b THEN a ELSE b
Max2(a, b) == IF a >= b THEN a ELSE b

\* item.add_point(x, y, z, flux)
add_point(item, c, f) ==
    [item EXCEPT !.vox = @ \cup {c}, !.npix = @ + 1,
                 !.fmin = Min2(@, f), !.fmax = Max2(@, f)]

\* item.merge(removed)
merge(item, removed) ==
    [item EXCEPT !.vox = @ \cup removed.vox, !.npix = @ + removed.npix,
                 !.fmin = Min2(@, removed.fmin), !.fmax = Max2(@, removed.fmax)]

\* item.add_footprint(image, level), not recursive: the voxels the item owns
\* are set to level.
add_footprint(image, item, level) ==
    [p \in DOMAIN image |-> IF p \in item.vox THEN level ELSE image[p]]

\* The loops "for i in merge: removed = items.pop(i); item.merge(removed);
\* removed.add_footprint(self.index_map, idx)", on the item and on the map.
RECURSIVE MergeAll(_, _)
MergeAll(item, ids) ==
    IF ids = {} THEN item
    ELSE LET i == CHOOSE k \in ids : TRUE
         IN MergeAll(merge(item, structs[i]), ids \ {i})

\* A merge loop without the "Update index map" line.
StampNone(image, ids, idx) == image

RECURSIVE StampAll(_, _, _)
StampAll(image, ids, idx) ==
    IF ids = {} THEN image
    ELSE LET i == CHOOSE k \in ids : TRUE
         IN StampAll(add_footprint(image, structs[i], idx), ids \ {i}, idx)

\* self.index_map[z, y, x] = idx
SetIndex(image, c, idx) == [image EXCEPT ![c] = idx]

\* A function with one more entry (d[k] = v on a dictionary).
Put(d, k, v) == [j \in DOMAIN d \cup {k} |-> IF j = k THEN v ELSE d[j]]

\* A dictionary without the keys ks (items.pop on each).
Drop(d, ks) == [j \in DOMAIN d \ ks |-> d[j]]


\* ------------------------------------------------------------------- Init

\* _compute is called with an array and the thresholds: nothing is set on
\* the Dendrogram yet, the ancestor dictionary is empty.
Init ==
    \E inp \in Inputs :
        /\ data_shape = inp.shape
        /\ data = inp.data
        /\ minimum_flux = inp.minimum_flux
        /\ minimum_npix = inp.minimum_npix
        /\ minimum_delta = inp.minimum_delta
        /\ attrs = {}
        /\ n_dim = 0
        /\ shape = <<>>
        /\ coords = <<>>
        /\ flux_values = <<>>
        /\ index_map = <<>>
        /\ ancestor = <<>>
        /\ items = {}
        /\ structs = <<>>
        /\ visited = {}
        /\ created = <<>>
        /\ remove = {}
        /\ trunk = {}
        /\ item_type_map = <<>>
        /\ pc = "start"

\* ------------------------------------------------------ before the scan

\* A test that took a 2D array for invalid.
ValidRankOnly3(s) == Len(s) = 3

\* "if len(data.shape) == 2: ... elif len(data.shape) == 3: ... else: raise"
ValidRank(s) == Len(s) = 2 \/ Len(s) = 3

\* What the steps before the scan leave alone.
StartFrame ==
    UNCHANGED <<data_shape, data, minimum_flux, minimum_npix, minimum_delta,
                ancestor, items, structs, visited, created, remove, trunk,
                item_type_map>>

\* The array is 2D or 3D: it is recast to 3D, the points above minimum_flux
\* are listed and the padded index_map is created, all zero.  The thresholds
\* are not looked at.
Recast ==
    /\ pc = "start"
    /\ ValidRank(data_shape)
    /\ n_dim' = Len(data_shape)
    /\ shape' = Reshape(data_shape)
    /\ coords' = KeptCoords(Reshape(data_shape), data, minimum_flux)
    /\ flux_values' =
         [k \in DOMAIN KeptCoords(Reshape(data_shape), data, minimum_flux) |->
            data[KeptCoords(Reshape(data_shape), data, minimum_flux)[k]]]
    /\ index_map' = [p \in PadCoords(Reshape(data_shape)) |-> 0]
    /\ attrs' = {"n_dim", "data", "index_map"}
    /\ pc' = "scan"
    /\ StartFrame

\* raise Exception("Invalid # of dimensions"): _compute ends there.
RaiseInvalidDimensions ==
    /\ pc = "start"
    /\ ~ValidRank(data_shape)
    /\ pc' = "raised"
    /\ UNCHANGED <<attrs, n_dim, shape, coords, flux_values, index_map>>
    /\ StartFrame

\* --------------------------------------------------------------- the scan

\* A test that compared the peak with the leaf's own minimum, as the pass
\* after the scan does.
InsignificantByOwnMin(idx, flux) ==
    /\ structs[idx].type = "Leaf"
    /\ \/ structs[idx].npix < minimum_npix
       \/ structs[idx].fmax - structs[idx].fmin < minimum_delta

\* A test that let branches be merged as well.
InsignificantAnyType(idx, flux) ==
    \/ structs[idx].npix < minimum_npix
    \/ structs[idx].fmax - flux < minimum_delta

\* A test with "<=" where the code has "<".
InsignificantAtOrBelow(idx, flux) ==
    /\ structs[idx].type = "Leaf"
    /\ \/ structs[idx].npix <= minimum_npix
       \/ structs[idx].fmax - flux <= minimum_delta

\* "Find all leaves that are not important enough to be kept separate"
Insignificant(idx, flux) ==
    /\ structs[idx].type = "Leaf"
    /\ \/ structs[idx].npix < minimum_npix
       \/ structs[idx].fmax - flux < minimum_delta

\* The list merge, and what is left of adjacent once it is removed.
MergeList(adj, flux) == {idx \in adj : Insignificant(idx, flux)}
Significant(adj, flux) == adj \ MergeList(adj, flux)

\* A choice without the branch for one adjacent item.
NAdjacentCaseNoAdd(adj) == IF Cardinality(adj) = 0 THEN "leaf" ELSE "merge"

\* "if n_adjacent == 0: ... elif n_adjacent == 1: ... else:"
NAdjacentCase(adj) ==
    IF Cardinality(adj) = 0 THEN "leaf"
    ELSE IF Cardinality(adj) = 1 THEN "add" ELSE "merge"

\* A choice that made a branch as soon as one significant item was left.
MergeCaseNoOnto(sig) == IF Cardinality(sig) = 0 THEN "first" ELSE "branch"

\* "if len(adjacent) == 0: ... elif len(adjacent) == 1: ... else:", on what
\* is left of adjacent.
MergeCase(sig) ==
    IF Cardinality(sig) = 0 THEN "first"
    ELSE IF Cardinality(sig) = 1 THEN "onto" ELSE "branch"

\* What every step of the scan leaves alone.
ScanFrame ==
    UNCHANGED <<data_shape, attrs, n_dim, shape, data, minimum_flux, minimum_npix, minimum_delta,
                flux_values, coords, remove, trunk, item_type_map, pc>>

\* n_adjacent == 0: create a new leaf.
NewLeaf ==
  \E i \in NextIndices :
    LET c == coords[i + 1]
        flux == flux_values[i + 1]
        idx == next_idx(i)
    IN /\ pc = "scan"
       /\ NAdjacentCase(adjacent(c)) = "leaf"
       /\ structs' = Put(structs, idx, Leaf(c, flux, idx))
       /\ items' = items \cup {idx}
       /\ index_map' = SetIndex(index_map, c, idx)
       /\ ancestor' = Put(ancestor, idx, None)
       /\ created' = Append(created, idx)
       /\ visited' = visited \cup {i}
       /\ ScanFrame

\* n_adjacent == 1: add the point to the existing leaf or branch.
AddToExisting ==
  \E i \in NextIndices :
    LET c == coords[i + 1]
        flux == flux_values[i + 1]
        adj == adjacent(c)
    IN /\ pc = "scan"
       /\ NAdjacentCase(adj) = "add"
       /\ \E idx \in adj :
            /\ structs' = [structs EXCEPT ![idx] = add_point(@, c, flux)]
            /\ index_map' = SetIndex(index_map, c, idx)
       /\ visited' = visited \cup {i}
       /\ UNCHANGED <<items, ancestor, created>>
       /\ ScanFrame

\* Merge, len(adjacent) == 0 once the insignificant leaves are taken out:
\* merge[0] is the reference and the others are merged onto it.  merge keeps
\* the order of list(set(adjacent)), which the language leaves open, so the
\* reference is any of them.
MergeOntoFirst ==
  \E i \in NextIndices :
    LET c == coords[i + 1]
        flux == flux_values[i + 1]
        adj == adjacent(c)
        mrg == MergeList(adj, flux)
    IN /\ pc = "scan"
       /\ NAdjacentCase(adj) = "merge"
       /\ MergeCase(Significant(adj, flux)) = "first"
       /\ \E idx \in mrg :
            LET leaf == add_point(structs[idx], c, flux)
                rest == mrg \ {idx}
            IN /\ structs' = Drop([structs EXCEPT ![idx] = MergeAll(leaf, rest)], rest)
               /\ items' = items \ rest
               /\ index_map' = StampAll(SetIndex(index_map, c, idx), rest, idx)
       /\ visited' = visited \cup {i}
       /\ UNCHANGED <<ancestor, created>>
       /\ ScanFrame

\* Merge, len(adjacent) == 1: the point and the insignificant leaves are
\* added to the one significant leaf or branch.
MergeOntoSignificant ==
  \E i \in NextIndices :
    LET c == coords[i + 1]
        flux == flux_values[i + 1]
        adj == adjacent(c)
        mrg == MergeList(adj, flux)
        sig == Significant(adj, flux)
    IN /\ pc = "scan"
       /\ NAdjacentCase(adj) = "merge"
       /\ MergeCase(sig) = "onto"
       /\ \E idx \in sig :
            LET item == add_point(structs[idx], c, flux)
            IN /\ structs' = Drop([structs EXCEPT ![idx] = MergeAll(item, mrg)], mrg)
               /\ items' = items \ mrg
               /\ index_map' = StampAll(SetIndex(index_map, c, idx), mrg, idx)
       /\ visited' = visited \cup {i}
       /\ UNCHANGED <<ancestor, created>>
       /\ ScanFrame

\* A rewrite that only set the entry of the child itself.
ReparentChildOnly(anc, j, idx) == [anc EXCEPT ![j] = idx]

\* A rewrite that took every entry without an ancestor for an entry of j.
ReparentEveryRoot(anc, j, idx) ==
    [a \in DOMAIN anc |-> IF a = j \/ anc[a] = None THEN idx ELSE anc[a]]

\* "ancestor[j] = idx; for a in ancestor: if ancestor[a] == j: ancestor[a] = idx"
Reparent(anc, j, idx) ==
    [a \in DOMAIN anc |-> IF a = j \/ anc[a] = j THEN idx ELSE anc[a]]

\* "for j in adjacent: ..." over the children of the new branch.
RECURSIVE ReparentAll(_, _, _)
ReparentAll(anc, js, idx) ==
    IF js = {} THEN anc
    ELSE LET j == CHOOSE k \in js : TRUE
         IN ReparentAll(Reparent(anc, j, idx), js \ {j}, idx)

\* Merge, two or more significant items left: create a branch over them,
\* merge the insignificant leaves onto it and rewrite the ancestors.
NewBranch ==
  \E i \in NextIndices :
    LET c == coords[i + 1]
        flux == flux_values[i + 1]
        adj == adjacent(c)
        mrg == MergeList(adj, flux)
        sig == Significant(adj, flux)
        idx == next_idx(i)
        branch == Branch(sig, c, flux, idx)
    IN /\ pc = "scan"
       /\ NAdjacentCase(adj) = "merge"
       /\ MergeCase(sig) = "branch"
       /\ structs' = Drop(Put(structs, idx, MergeAll(branch, mrg)), mrg)
       /\ items' = (items \cup {idx}) \ mrg
       /\ index_map' = StampAll(SetIndex(index_map, c, idx), mrg, idx)
       /\ ancestor' = ReparentAll(Put(ancestor, idx, None), sig, idx)
       /\ created' = Append(created, idx)
       /\ visited' = visited \cup {i}
       /\ ScanFrame

\* --------------------------------------------------------- after the scan

\* A pass that removed only the leaves without a parent.
RemovableOrphan(idx) ==
    /\ structs[idx].type = "Leaf"
    /\ ancestor[idx] = None
    /\ \/ structs[idx].npix < minimum_npix
       \/ structs[idx].fmax - structs[idx].fmin < minimum_delta

\* A pass that looked at the size of a leaf only.
RemovableBySizeOnly(idx) ==
    /\ structs[idx].type = "Leaf"
    /\ structs[idx].npix < minimum_npix

\* The test of "Remove orphan leaves that aren't large enough".
Removable(idx) ==
    /\ structs[idx].type = "Leaf"
    /\ \/ structs[idx].npix < minimum_npix
       \/ structs[idx].fmax - structs[idx].fmin < minimum_delta

\* The scan is over: the removable leaves are popped from items.  The Leaf
\* objects stay where a Branch holds them as children.
RemoveOrphans ==
    /\ pc = "scan"
    /\ Unvisited = {}
    /\ remove' = {idx \in items : Removable(idx)}
    /\ items' = items \ remove'
    /\ pc' = "trunk"
    /\ UNCHANGED <<data_shape, attrs, n_dim, shape, data, minimum_flux, minimum_npix, minimum_delta,
                   flux_values, coords, index_map, ancestor, structs, visited, created, trunk,
                   item_type_map>>

\* A trunk of every item left.
AllItems == items

\* The items with no ancestor.
Roots == {idx \in items : ancestor[idx] = None}

\* The level item_type_map gets on the voxels of an item.
TypeLevel(idx) == IF structs[idx].type = "Leaf" THEN 2 ELSE 1

\* "for idx in items: ... item.add_footprint(self.item_type_map, ...)"
RECURSIVE StampTypes(_, _)
StampTypes(image, ids) ==
    IF ids = {} THEN image
    ELSE LET i == CHOOSE k \in ids : TRUE
         IN StampTypes(add_footprint(image, structs[i], TypeLevel(i)), ids \ {i})

\* "Create trunk from objects with no ancestors" and "Make map of leaves vs
\* branches": the end of _compute.
Assemble ==
    /\ pc = "trunk"
    /\ trunk' = Roots
    /\ item_type_map' = StampTypes([c \in Coords(shape) |-> 0], items)
    /\ attrs' = attrs \cup {"trunk", "item_type_map"}
    /\ pc' = "done"
    /\ UNCHANGED <<data_shape, n_dim, shape, data, minimum_flux, minimum_npix, minimum_delta,
                   flux_values, coords, index_map, ancestor, items, structs,
                   visited, created, remove>>

Next ==
    \/ Recast
    \/ RaiseInvalidDimensions
    \/ NewLeaf
    \/ AddToExisting
    \/ MergeOntoFirst
    \/ MergeOntoSignificant
    \/ NewBranch
    \/ RemoveOrphans
    \/ Assemble

Spec == Init /\ [][Next]_vars


\* ------------------------------------------------ vocabulary of the claims

\* The voxels the scan has processed.
Processed == {coords[i + 1] : i \in visited}

\* All the voxels above minimum_flux.
AllKept == {coords[k] : k \in DOMAIN coords}

\* Two voxels of the cube that differ by one along one axis.
Adjacent6(u, v) ==
    LET d(k) == IF u[k] >= v[k] THEN u[k] - v[k] ELSE v[k] - u[k]
    IN d(1) + d(2) + d(3) = 1

\* The voxels of S joined to the voxels of front by a path of 6-adjacent
\* voxels of S.
RECURSIVE Grow(_, _)
Grow(front, S) ==
    LET more == {v \in S \ front : \E u \in front : Adjacent6(u, v)}
    IN IF more = {} THEN front ELSE Grow(front \cup more, S)
Component(u, S) == Grow({u}, S)

\* The structure a voxel maps to: its index_map id, then the ancestor lookup.
RootOfVoxel(v) ==
    IF ancestor[index_map[v]] # None THEN ancestor[index_map[v]] ELSE index_map[v]

\* The ids of a structure and of all its descendants.
RECURSIVE Subtree(_)
Subtree(idx) == {idx} \cup UNION {Subtree(ch) : ch \in structs[idx].children}

\* The voxels a structure and all its descendants own.
OwnedBySubtree(idx) == UNION {structs[k].vox : k \in Subtree(idx)}

\* The structures of the finished tree: the trunk and all the descendants.
TreeIds == UNION {Subtree(t) : t \in trunk}

\* The Branch objects.
Branches == {b \in DOMAIN structs : structs[b].type = "Branch"}

\* Where the ancestor links lead from an id: the id whose entry is None, or
\* None itself when no such id is met within as many steps as there are
\* entries (a cycle).
RECURSIVE Follow(_, _)
Follow(idx, fuel) ==
    IF ancestor[idx] = None THEN idx
    ELSE IF fuel = 0 THEN None
    ELSE Follow(ancestor[idx], fuel - 1)
Terminal(idx) == Follow(idx, Cardinality(DOMAIN ancestor))

\* The scan is over and the leaves have not been removed yet.
ScanOver == pc = "scan" /\ Unvisited = {}

\* ------------------------------------------------------------------ claims

\* C1: after each voxel is processed, two processed voxels map (index_map
\* id, then ancestor lookup) to the same root structure if and only if a path
\* of 6-adjacent processed voxels joins them; and when the scan is over every
\* root owns, with its descendants, exactly one 6-connected component of the
\* voxels above minimum_flux, every such voxel being owned by a root.
\* (The voxels mapping to one root are one whole component of the processed
\* voxels, for every root: the classes of "same root" are the components.)
C1_RootsAreComponents ==
    /\ \A r \in {RootOfVoxel(v) : v \in Processed} :
          LET mapped == {v \in Processed : RootOfVoxel(v) = r}
          IN mapped = Component(CHOOSE u \in mapped : TRUE, Processed)
    /\ ScanOver =>
          /\ \A r \in Roots : \E u \in AllKept : OwnedBySubtree(r) = Component(u, AllKept)
          /\ UNION {OwnedBySubtree(r) : r \in Roots} = AllKept

\* C1's case: the scan is over with a branch over two leaves and another
\* root that never connected to it.
C1_Witness ==
    /\ ScanOver
    /\ Cardinality(Roots) >= 2
    /\ \E b \in Roots : structs[b].type = "Branch"

\* C2: every processed voxel whose structure was not removed after the scan
\* has in index_map the id of a structure of the items table, is in that
\* structure's voxels and in the voxels of no other structure of the table;
\* the voxels not processed are 0 in index_map.
C2_IndexMapOwner ==
    /\ \A v \in Processed :
          /\ index_map[v] # 0
          /\ index_map[v] \notin remove =>
                /\ index_map[v] \in items
                /\ v \in structs[index_map[v]].vox
                /\ \A b \in items \ {index_map[v]} : v \notin structs[b].vox
    /\ \A p \in DOMAIN index_map \ Processed : index_map[p] = 0

\* C2's case: a leaf was retired by a merge and its footprint re-stamped, a
\* leaf was removed after the scan, and a branch is left.
C2_Witness ==
    /\ pc = "done"
    /\ remove # {}
    /\ DOMAIN ancestor \ DOMAIN structs # {}
    /\ \E b \in items : structs[b].type = "Branch"
    /\ \E v \in Processed : index_map[v] \in items /\ structs[index_map[v]].seed # v


\* The input of scenario S2: the row [1,2,3,2,1,2,3,2,1] with min_flux = 0,
\* min_npix = 1 and min_delta = 3.
IsS2 ==
    /\ shape = <<1, 1, Len(TwoPeaks)>>
    /\ data = RowData(TwoPeaks)
    /\ minimum_flux = 0 /\ minimum_npix = 1 /\ minimum_delta = 3

\* C3, as the claim states it: on the input of S2 the finished trunk is
\* exactly one Leaf.
C3_AsClaimed ==
    (IsS2 /\ pc = "done") =>
        /\ Cardinality(trunk) = 1
        /\ \A t \in trunk : structs[t].type = "Leaf"

\* C3, amended: on the input of S2 no Branch is ever created, the two leaves
\* are collapsed at the saddle into a single Leaf of all nine voxels, which
\* is the only item when the scan is over; its fmax - fmin is 2 < 3, so it is
\* removed after the scan, and the items table and the finished trunk are
\* empty.
C3_SingleLeafThenEmptyTrunk ==
    IsS2 =>
        /\ \A idx \in DOMAIN structs : structs[idx].type = "Leaf"
        /\ ScanOver =>
              /\ Cardinality(items) = 1
              /\ \A idx \in items : structs[idx].vox = AllKept /\ structs[idx].npix = 9
        /\ pc # "scan" => items = {} /\ Cardinality(remove) = 1
        /\ pc = "done" => trunk = {}

\* C3's case: the build of S2 is finished, after the two leaves met at the
\* saddle.
C3_Witness ==
    /\ IsS2
    /\ pc = "done"
    /\ Len(created) = 2
    /\ \E idx \in remove : structs[idx].npix = 9

\* C4, as the claim states it: what is removed after the scan is exactly the
\* root leaves that fail the test, and never a leaf that is a child of a
\* branch.
C4_AsClaimed ==
    pc # "scan" =>
        /\ remove = {idx \in items \cup remove : RemovableOrphan(idx)}
        /\ \A b \in Branches : structs[b].children \cap remove = {}

\* C5, as the claim states it: in the finished dendrogram item_type_map is 2
\* exactly on the voxels of the leaves of the finished tree, 1 exactly on the
\* voxels a branch of the finished tree owns itself, and 0 elsewhere.
C5_AsClaimed ==
    pc = "done" =>
        \A v \in Coords(shape) :
            /\ item_type_map[v] = 2 <=>
                  \E l \in TreeIds : structs[l].type = "Leaf" /\ v \in structs[l].vox
            /\ item_type_map[v] = 1 <=>
                  \E b \in TreeIds : structs[b].type = "Branch" /\ v \in structs[b].vox
            /\ item_type_map[v] \in {0, 1, 2}

\* C6: every Branch has at least two children, which are other structures
\* that still exist, and every Leaf has none; and no step takes a child from
\* a Branch or a Branch away.
C6_BranchHasTwoChildren ==
    /\ [](\A idx \in DOMAIN structs :
            /\ structs[idx].type = "Branch" =>
                  /\ Cardinality(structs[idx].children) >= 2
                  /\ structs[idx].children \subseteq DOMAIN structs \ {idx}
            /\ structs[idx].type = "Leaf" => structs[idx].children = {})
    /\ [][\A b \in Branches :
             b \in DOMAIN structs' /\ structs'[b].children = structs[b].children]_vars

\* C6's case: a finished tree with a branch whose child is a branch.
C6_Witness ==
    /\ pc = "done"
    /\ \E b \in Branches : \E c \in structs[b].children : structs[c].type = "Branch"

\* The flux of the seed voxel of a structure.
SeedFlux(idx) == data[structs[idx].seed]

\* The largest flux among the voxels a structure owns itself.
OwnMax(idx) ==
    CHOOSE f \in {data[v] : v \in structs[idx].vox} :
        \A v \in structs[idx].vox : data[v] <= f

C8_SeedBelowChildren ==
    \A b \in Branches :
        /\ structs[b].fmin <= SeedFlux(b)
        /\ \A c \in structs[b].children : SeedFlux(b) <= structs[c].fmin

\* C8's case: a finished tree with a Branch whose seed voxel is below the
\* fmin of a child that is a Branch and below the fmin of a child that is a
\* Leaf.
C8_Witness ==
    /\ pc = "done"
    /\ \E b \in Branches :
          /\ \E c \in structs[b].children :
                structs[c].type = "Branch" /\ SeedFlux(b) < structs[c].fmin
          /\ \E c \in structs[b].children :
                structs[c].type = "Leaf" /\ SeedFlux(b) < structs[c].fmin

\* C9, as the claim states it: at the end, from every id of the ancestor
\* map the links end at an id of the trunk.
C9_AsClaimed ==
    pc = "done" => \A idx \in DOMAIN ancestor : Terminal(idx) \in trunk

\* C9, amended: at the end, from every id of the ancestor map the links end
\* at an entry None (no cycle); the id they end at is in the trunk for every
\* id of the items table, and the only ids they do not lead to the trunk from
\* are the ids, themselves without an ancestor, of leaves retired by a merge
\* or removed after the scan.
C9_TerminalInTrunk ==
    pc = "done" =>
        \A idx \in DOMAIN ancestor :
            /\ Terminal(idx) # None
            /\ idx \in items => Terminal(idx) \in trunk
            /\ Terminal(idx) \notin trunk =>
                  /\ ancestor[idx] = None
                  /\ idx \in remove \/ idx \notin DOMAIN structs

\* C9's case: a finished build with a child of a branch of the trunk and a
\* leaf retired by a merge, whose id is in no trunk.
C9_Witness ==
    /\ pc = "done"
    /\ \E idx \in items : ancestor[idx] # None /\ ancestor[idx] \in trunk
    /\ \E idx \in DOMAIN ancestor : idx \notin DOMAIN structs /\ Terminal(idx) \notin trunk

InvalidThreshold == minimum_npix < 0 \/ minimum_delta < 0 \/ minimum_flux = NaN

\* C11, as the claim states it: a build with minimum_npix < 0, minimum_delta
\* < 0 or a minimum_flux that is not a number fails at once: it never gets to
\* the scan and sets no trunk, index_map or item_type_map.
C11_AsClaimed ==
    InvalidThreshold =>
        /\ pc \in {"start", "raised"}
        /\ attrs \cap {"trunk", "index_map", "item_type_map"} = {}

\* C12: an array whose number of dimensions is neither 2 nor 3 makes the
\* build raise before any voxel is processed, with no trunk, index_map or
\* item_type_map (nor anything else) set on the Dendrogram; an array of 2 or
\* 3 dimensions never makes it raise.
C12_RankChecked ==
    /\ Len(data_shape) \notin {2, 3} =>
          /\ pc \in {"start", "raised"}
          /\ attrs = {}
          /\ visited = {} /\ items = {} /\ index_map = <<>> /\ item_type_map = <<>>
    /\ Len(data_shape) \in {2, 3} => pc # "raised"
    /\ pc # "start" /\ pc # "raised" => {"n_dim", "data", "index_map"} \subseteq attrs

\* C12's case: the build of an array of four axes has raised.
C12_Witness == pc = "raised" /\ Len(data_shape) = 4

\* The ids of the structures created so far.
CreatedIds == {created[k] : k \in DOMAIN created}

\* A step of the scan loop, and the index i it goes through.
ScanStep == pc = "scan" /\ visited' # visited
StepIndex == CHOOSE i \in visited' \ visited : TRUE

\* The voxel had no assigned 6-neighbour when the step started.
NoAssignedNeighbour(c) == \A n \in indices_adjacent(c) : IndexAt(n) = 0

\* Both size thresholds are zero.
ZeroThresholds == minimum_npix = 0 /\ minimum_delta = 0

\* C13: with minimum_npix = 0 and minimum_delta = 0 no structure is retired
\* by a merge during the scan and none is removed after it: the structures
\* of the table are at every moment all the structures created, they keep
\* their type and seed, and all of them are in the finished tree; and a
\* voxel processed with no assigned 6-neighbour becomes the seed of a Leaf
\* in that very step.
C13_NoPruning ==
    /\ [](ZeroThresholds =>
            /\ items = CreatedIds
            /\ DOMAIN structs = CreatedIds
            /\ remove = {}
            /\ pc = "done" => TreeIds = CreatedIds)
    /\ [][ZeroThresholds =>
            /\ \A idx \in DOMAIN structs :
                  /\ idx \in DOMAIN structs'
                  /\ structs'[idx].type = structs[idx].type
                  /\ structs'[idx].seed = structs[idx].seed
            /\ ScanStep /\ NoAssignedNeighbour(coords[StepIndex + 1]) =>
                  /\ next_idx(StepIndex) \in items' \ items
                  /\ structs'[next_idx(StepIndex)].type = "Leaf"
                  /\ structs'[next_idx(StepIndex)].seed = coords[StepIndex + 1]]_vars

\* C13's case: a tree built with both thresholds zero is finished, with a
\* leaf of one voxel under a branch that is itself under a branch.
C13_Witness ==
    /\ pc = "done"
    /\ ZeroThresholds
    /\ \E b \in Branches : \E c \in structs[b].children : structs[c].type = "Branch"
    /\ \E l \in TreeIds : structs[l].type = "Leaf" /\ structs[l].npix = 1

\* No voxel of the input is above minimum_flux.
NoVoxelAbove == \A c \in DOMAIN data : ~Above(data[c], minimum_flux)

\* C14: when no voxel of a 2D or 3D input is above minimum_flux the build
\* does not raise: the scan has nothing to go through, no structure is ever
\* created, index_map is 0 everywhere, and the build ends with an empty
\* trunk and an item_type_map that is 0 everywhere.
C14_EmptyInput ==
    (ValidRank(data_shape) /\ NoVoxelAbove) =>
        /\ pc # "raised"
        /\ items = {} /\ created = <<>> /\ visited = {}
        /\ pc = "scan" => Unvisited = {}
        /\ pc # "start" =>
              /\ "index_map" \in attrs
              /\ index_map = [p \in PadCoords(shape) |-> 0]
        /\ pc = "done" =>
              /\ {"trunk", "item_type_map"} \subseteq attrs
              /\ trunk = {}
              /\ item_type_map = [c \in Coords(shape) |-> 0]

\* C14's case: the build of a grid with no cell above minimum_flux has ended.
C14_Witness ==
    /\ pc = "done"
    /\ NoVoxelAbove
    /\ Cardinality(DOMAIN data) > 1

\* The root structures touching a voxel: the roots of its processed
\* 6-neighbours.
Touching(c) == {RootOfVoxel(v) : v \in {u \in Processed : Adjacent6(u, c)}}

\* The retirement condition at a voxel of flux f.
Retirable(idx, f) ==
    /\ structs[idx].type = "Leaf"
    /\ structs[idx].npix < minimum_npix \/ structs[idx].fmax - f < minimum_delta

\* The structures a step retires.
Retired == items \ items'

\* C15: a step of the scan at a voxel of flux f retires (takes out of the
\* table, its voxels going to a structure that stays) only root Leaves that
\* touch the voxel and have npix < minimum_npix or fmax - f < minimum_delta;
\* where two or more roots touch the voxel, every touching Leaf with that
\* condition is retired, except one at most, which then gets the voxel and
\* is the reference of a merge where no touching root is significant.  So
\* no Branch is retired, and no Leaf with npix >= minimum_npix and fmax - f
\* >= minimum_delta.
C15_RetiredOnlyIfInsignificant ==
    [][ScanStep =>
         LET c == coords[StepIndex + 1]
             f == flux_values[StepIndex + 1]
             kept == {idx \in Touching(c) : Retirable(idx, f) /\ idx \notin Retired}
         IN /\ \A r \in Retired :
                  /\ r \in Touching(c)
                  /\ ancestor[r] = None
                  /\ Retirable(r, f)
                  /\ r \notin DOMAIN structs'
                  /\ \E k \in items' : structs[r].vox \subseteq structs'[k].vox
            /\ Cardinality(Touching(c)) >= 2 =>
                  /\ Cardinality(kept) <= 1
                  /\ \A k \in kept :
                        /\ index_map'[c] = k
                        /\ \A t \in Touching(c) : Retirable(t, f)
            /\ \A idx \in items :
                  (structs[idx].type = "Branch" \/ ~Retirable(idx, f)) => idx \in items']_vars

\* C15's case: a leaf has been retired by a merge that kept a significant
\* structure, and a branch exists.
C15_Witness ==
    /\ pc = "scan"
    /\ CreatedIds \ DOMAIN structs # {}
    /\ Branches # {}
    /\ \E l \in items : structs[l].type = "Leaf" /\ structs[l].npix >= 3

\* The input of scenario S4: the row [3,3,3] with min_flux = 0.
IsS4 ==
    /\ data_shape = <<1, 3>>
    /\ data = RowData(<<3, 3, 3>>)
    /\ minimum_flux = 0

\* C16, as the claim states it: every step of the scan takes a voxel not
\* taken before, of the largest flux left, and among the voxels of that flux
\* the one of the smallest row-major index; the scan ends only when every
\* voxel above minimum_flux was taken; and on the row [3,3,3] the result is
\* one Leaf of three voxels.
C16_AsClaimed ==
    /\ [][ScanStep =>
            /\ StepIndex \notin visited
            /\ visited' = visited \cup {StepIndex}
            /\ \A j \in Unvisited : flux_values[j + 1] <= flux_values[StepIndex + 1]
            /\ \A j \in Unvisited :
                  flux_values[j + 1] = flux_values[StepIndex + 1] => StepIndex <= j]_vars
    /\ [](pc \in {"trunk", "done"} => Processed = Keep(shape, data, minimum_flux))
    /\ [](IsS4 /\ pc = "done" =>
            /\ Cardinality(trunk) = 1
            /\ \A t \in trunk : structs[t].type = "Leaf" /\ structs[t].npix = 3)

\* C17, as the claim states it: at a voxel touched by two or more roots that
\* are all insignificant Leaves, the Leaf of the smallest id gets the voxel
\* and the voxels of the others, and the others are retired.
C17_AsClaimed ==
    [][(ScanStep /\ Cardinality(Touching(coords[StepIndex + 1])) >= 2
                 /\ \A t \in Touching(coords[StepIndex + 1]) :
                       Retirable(t, flux_values[StepIndex + 1])) =>
         LET c == coords[StepIndex + 1]
             smallest == CHOOSE t \in Touching(c) : \A u \in Touching(c) : t <= u
         IN /\ index_map'[c] = smallest
            /\ smallest \in items'
            /\ Retired = Touching(c) \ {smallest}
            /\ structs'[smallest].vox =
                  {c} \cup UNION {structs[t].vox : t \in Touching(c)}]_vars

\* The one-step lookup the scan makes on the id of a neighbour.
OneStep(id) == IF ancestor[id] # None THEN ancestor[id] ELSE id

\* C18: at every moment of the scan the ancestor dictionary is flat: an
\* entry that is not None names a Branch of the items table whose own entry
\* is None; every non-zero id of index_map has an entry; so the one-step
\* lookup on such an id gives the id the chain of entries ends at, and that
\* id is a key of items.
C18_AncestorFlat ==
    /\ \A k \in DOMAIN ancestor :
          ancestor[k] # None =>
             /\ ancestor[k] \in DOMAIN ancestor
             /\ ancestor[ancestor[k]] = None
             /\ ancestor[k] \in items
             /\ structs[ancestor[k]].type = "Branch"
    /\ \A p \in DOMAIN index_map :
          index_map[p] # 0 =>
             /\ index_map[p] \in DOMAIN ancestor
             /\ OneStep(index_map[p]) = Terminal(index_map[p])
             /\ pc = "scan" => OneStep(index_map[p]) \in items

\* C18's case: the scan has made a branch over a branch, and the entry of a
\* structure two levels down names the top branch.
C18_Witness ==
    /\ pc = "scan"
    /\ \E b \in Branches : \E c \in structs[b].children :
          /\ structs[c].type = "Branch"
          /\ \E g \in structs[c].children :
                /\ ancestor[g] = b
                /\ \E p \in DOMAIN index_map : index_map[p] = g

\* C19: a structure whose ancestor entry is not None is left alone by every
\* later step of the scan: it stays in the table with the same voxels, npix,
\* fmin, fmax and children, its entry stays not None, and index_map keeps
\* its id on its voxels; the structures a step changes or retires all have
\* the entry None.
C19_ChildrenFrozen ==
    [][ScanStep =>
         /\ \A k \in DOMAIN ancestor :
               ancestor[k] # None =>
                  /\ ancestor'[k] # None
                  /\ k \in items /\ k \in items'
                  /\ structs'[k] = structs[k]
                  /\ \A v \in structs[k].vox : index_map[v] = k /\ index_map'[v] = k
         /\ \A idx \in DOMAIN structs :
               (idx \notin DOMAIN structs' \/ structs'[idx] # structs[idx]) =>
                   ancestor[idx] = None]_vars

\* C19's case: after a structure became the child of a branch, a voxel next
\* to one of its voxels was processed and went to the branch above it.
C19_Witness ==
    /\ pc = "scan"
    /\ \E k \in DOMAIN ancestor :
          /\ ancestor[k] # None
          /\ \E u \in structs[k].vox : \E v \in Processed :
                /\ Adjacent6(u, v)
                /\ index_map[v] = ancestor[k]
                /\ v # structs[ancestor[k]].seed

\* C20: every Leaf of the finished tree is significant: it has npix >=
\* minimum_npix; a Leaf of the trunk has fmax - fmin >= minimum_delta; and a
\* Leaf that is the child of a Branch has fmax - (the flux of the Branch's
\* seed voxel) >= minimum_delta.
C20_LeavesSignificant ==
    pc = "done" =>
        \A l \in TreeIds :
            structs[l].type = "Leaf" =>
                /\ structs[l].npix >= minimum_npix
                /\ l \in trunk => structs[l].fmax - structs[l].fmin >= minimum_delta
                /\ \A b \in TreeIds :
                      l \in structs[b].children =>
                          structs[l].fmax - SeedFlux(b) >= minimum_delta

\* C20's case: a finished tree, built with both thresholds above zero, with
\* a Leaf in the trunk and a Leaf under a Branch.
C20_Witness ==
    /\ pc = "done"
    /\ minimum_npix > 0 /\ minimum_delta > 0
    /\ \E l \in trunk : structs[l].type = "Leaf"
    /\ \E b \in TreeIds : \E l \in structs[b].children : structs[l].type = "Leaf"

=============================================================================
